---- MODULE Spec2Model ----
(***************************************************************************)
(* Model of bplustree/plot.py: a straight-line script that loads the       *)
(* benchmark table out.tsv, drops its last row, draws one heatmap column   *)
(* per fan-out value and then a 3x2 grid of sweep line plots.              *)
(*                                                                         *)
(* The script is one sequential process; pc is the statement it is about   *)
(* to execute.  An uncaught Python exception ends the process: pc becomes  *)
(* "error", err names the exception, and no later statement runs.          *)
(***************************************************************************)
EXTENDS Integers, Sequences, FiniteSets, TLC

(***************************************************************************)
(* Bounds of the input file and the values its key columns take.           *)
(***************************************************************************)
MaxRows == 5

NValues == {1, 2}
NsizeValues == {1, 2}
LsizeValues == {1, 2}

Keys == [n : NValues, nsize : NsizeValues, lsize : LsizeValues]

(* The data row at file position p.  The three measured costs are opaque   *)
(* to the script (it only copies them), so each cell of the file carries a *)
(* distinct positive tag: 3p-2, 3p-1, 3p.                                  *)
FileRow(key, p) ==
    [n |-> key.n, nsize |-> key.nsize, lsize |-> key.lsize,
     add |-> 3 * p - 2, get |-> 3 * p - 1, del |-> 3 * p]

VARIABLES
    pc,          \* statement about to run, "done" or "error"
    err,         \* the uncaught exception, "" while none
    file,        \* data rows of out.tsv, in file order
    df,          \* the DataFrame df
    axs,         \* shape of the axes array returned by the last plt.subplots
    num_Ns, num_ns, num_ls, nmax,
    k, i, j,     \* loop indices (0-based, as enumerate gives them)
    a, g, d,     \* the three matrices of the current fan-out
    heatImg,     \* images drawn on the heatmap figure: <<row, col>> -> matrix
    colors,      \* the colour list
    _df,         \* the sweep loops' filtered table
    lines,       \* lines plotted on the sweep figure, in plot order
    logAxes,     \* lines 52-56 ran
    shown        \* number of figures plt.show() has displayed

vars == <<pc, err, file, df, axs, num_Ns, num_ns, num_ls, nmax, k, i, j,
          a, g, d, heatImg, colors, _df, lines, logAxes, shown>>

----------------------------------------------------------------------------
(* pandas / numpy / matplotlib primitives the script uses                  *)

(* df.iloc[:stop] for a negative stop: Python slice arithmetic.            *)
IlocUpTo(t, stop) ==
    LET s0 == IF stop < 0 THEN stop + Len(t) ELSE stop
        s1 == IF s0 < 0 THEN 0 ELSE IF s0 > Len(t) THEN Len(t) ELSE s0
    IN  SubSeq(t, 1, s1)

(* df[col].unique(), as a set (the script only sorts or counts it).        *)
Unique(t, col) == { t[r][col] : r \in DOMAIN t }

SetMin(S) == CHOOSE x \in S : \A y \in S : x <= y
SetMax(S) == CHOOSE x \in S : \A y \in S : y <= x

(* sorted(S): the ascending sequence of the members of S.                  *)
RECURSIVE Sorted(_)
Sorted(S) ==
    IF S = {} THEN <<>>
    ELSE LET m == SetMin(S) IN <<m>> \o Sorted(S \ {m})

(* enumerate(...)[idx] with a 0-based index.                               *)
At(s, idx) == s[idx + 1]

(* np.zeros((rows, cols)).                                                 *)
Zeros(rows, cols) == [c \in (0..rows - 1) \X (0..cols - 1) |-> 0]

(* df[(df['nsize'] == ns) & (df['lsize'] == l) & (df['n'] == N)]           *)
CellMask(t, ns, l, N) ==
    SelectSeq(t, LAMBDA r : r.nsize = ns /\ r.lsize = l /\ r.n = N)

(* mutant of SetItem: a series of several elements stores its first one    *)
SetItemTakesFirst(m, c, series) ==
    IF Len(series) >= 1
    THEN [ok |-> TRUE, m |-> [m EXCEPT ![c] = series[1]]]
    ELSE [ok |-> FALSE, m |-> m]

(* mutant of SetItem: an empty series is skipped, the cell keeps its 0     *)
SetItemSkipsEmpty(m, c, series) ==
    IF Len(series) = 1
    THEN [ok |-> TRUE, m |-> [m EXCEPT ![c] = series[1]]]
    ELSE [ok |-> Len(series) = 0, m |-> m]

(* m[c] = series with c a full integer index: numpy stores the single      *)
(* element of a one-element series and raises for an empty or longer one,  *)
(* leaving m as it was.                                                    *)
SetItem(m, c, series) ==
    IF Len(series) = 1
    THEN [ok |-> TRUE, m |-> [m EXCEPT ![c] = series[1]]]
    ELSE [ok |-> FALSE, m |-> m]

Column(t, col) == [r \in DOMAIN t |-> t[r][col]]

(* plt.subplots(ncols, nrows) with squeeze=True: a grid with one column    *)
(* (or one row) comes back as a 1-D array of Axes.                         *)
SubplotsShape(nrows, ncols) ==
    [nrows |-> nrows, ncols |-> ncols,
     ndim |-> IF nrows = 1 /\ ncols = 1 THEN 0
              ELSE IF nrows = 1 \/ ncols = 1 THEN 1 ELSE 2]

(* [cm.viridis(x) for x in np.linspace(0, 1, num)]: one colour per sample, *)
(* named by its sample index.                                              *)
Linspace(num) == [x \in 1..num |-> x]

Raise(kind) ==
    /\ pc' = "error"
    /\ err' = kind

----------------------------------------------------------------------------
Init ==
    \* any well-formed out.tsv with at most MaxRows data rows: any sequence
    \* of keys, repeated and missing combinations and any row order included
    /\ \E len \in 0..MaxRows : \E ks \in [1..len -> Keys] :
          file = [p \in 1..len |-> FileRow(ks[p], p)]
    /\ pc = "read_csv"
    /\ err = ""
    /\ df = <<>>
    /\ axs = SubplotsShape(1, 1)
    /\ num_Ns = 0 /\ num_ns = 0 /\ num_ls = 0 /\ nmax = 0
    /\ k = 0 /\ i = 0 /\ j = 0
    /\ a = Zeros(0, 0) /\ g = Zeros(0, 0) /\ d = Zeros(0, 0)
    /\ heatImg = Zeros(0, 0)
    /\ colors = <<>>
    /\ _df = <<>>
    /\ lines = <<>>
    /\ logAxes = FALSE
    /\ shown = 0

(* line 6: df = pd.read_csv('out.tsv', sep='\t')                           *)
ReadCsv ==
    /\ pc = "read_csv"
    /\ df' = file
    /\ pc' = "trim"
    /\ UNCHANGED <<err, file, axs, num_Ns, num_ns, num_ls, nmax, k, i, j,
                   a, g, d, heatImg, colors, _df, lines, logAxes, shown>>

(* mutant of TrimmedTable: df.iloc[1:], the first row dropped              *)
TrimmedTableDropsFirst(t) == SubSeq(t, 2, Len(t))

(* line 7: df = df.iloc[:-1]                                               *)
TrimmedTable(t) == IlocUpTo(t, -1)

TrimLast ==
    /\ pc = "trim"
    /\ df' = TrimmedTable(df)
    /\ pc' = "subplots1"
    /\ UNCHANGED <<err, file, axs, num_Ns, num_ns, num_ls, nmax, k, i, j,
                   a, g, d, heatImg, colors, _df, lines, logAxes, shown>>

(* line 9: fig, axs = plt.subplots(ncols=len(df['n'].unique()), nrows=3)   *)
(* matplotlib rejects a grid of zero columns.                              *)
Subplots1 ==
    /\ pc = "subplots1"
    /\ IF Cardinality(Unique(df, "n")) = 0
       THEN Raise("ValueError") /\ UNCHANGED axs
       ELSE /\ axs' = SubplotsShape(3, Cardinality(Unique(df, "n")))
            /\ pc' = "counts"
            /\ UNCHANGED err
    /\ UNCHANGED <<file, df, num_Ns, num_ns, num_ls, nmax, k, i, j,
                   a, g, d, heatImg, colors, _df, lines, logAxes, shown>>

(* lines 11-15: num_Ns, num_ns, num_ls, nmax                               *)
Counts ==
    /\ pc = "counts"
    /\ num_Ns' = Cardinality(Unique(df, "n"))
    /\ num_ns' = Cardinality(Unique(df, "nsize"))
    /\ num_ls' = Cardinality(Unique(df, "lsize"))
    /\ nmax' = SetMax(Unique(df, "n"))
    /\ pc' = "heat_N"
    /\ UNCHANGED <<err, file, df, axs, k, i, j, a, g, d, heatImg, colors, _df,
                   lines, logAxes, shown>>

(* the fan-out of heatmap column kk: sorted(df['n'].unique())[kk]          *)
FanoutAt(t, kk) == At(Sorted(Unique(t, "n")), kk)
NsizeAt(t, ii) == At(Sorted(Unique(t, "nsize")), ii)
LsizeAt(t, jj) == At(Sorted(Unique(t, "lsize")), jj)

(* lines 17-20: next fan-out of the outer loop, three fresh zero matrices; *)
(* line 31 follows the loop.                                               *)
HeatNextN ==
    /\ pc = "heat_N"
    /\ IF k < Len(Sorted(Unique(df, "n")))
       THEN /\ a' = Zeros(num_ns, num_ls)
            /\ g' = Zeros(num_ns, num_ls)
            /\ d' = Zeros(num_ns, num_ls)
            /\ i' = 0 /\ j' = 0
            /\ pc' = "heat_cell"
       ELSE /\ pc' = "show1"
            /\ UNCHANGED <<a, g, d, i, j>>
    /\ UNCHANGED <<err, file, df, axs, num_Ns, num_ns, num_ls, nmax, k,
                   heatImg, colors, _df, lines, logAxes, shown>>

(* the value line 23/24/25 stores: the selected column of the masked rows  *)
CellSeries(t, ii, jj, kk, col) ==
    Column(CellMask(t, NsizeAt(t, ii), LsizeAt(t, jj), FanoutAt(t, kk)), col)

(* the loop indices after cell (i, j): next lsize, else next nsize, else   *)
(* the imshow calls of line 27                                             *)
HeatCellAdvance ==
    IF j + 1 < num_ls
    THEN j' = j + 1 /\ UNCHANGED <<i, pc>>
    ELSE IF i + 1 < num_ns
         THEN i' = i + 1 /\ j' = 0 /\ UNCHANGED pc
         ELSE pc' = "imshow" /\ UNCHANGED <<i, j>>

(* lines 21-25: cell (i, j) of a, then of g, then of d; the first          *)
(* assignment that raises ends the run with the earlier ones done.         *)
HeatCell ==
    /\ pc = "heat_cell"
    /\ LET ra == SetItem(a, <<i, j>>, CellSeries(df, i, j, k, "add"))
           rg == SetItem(g, <<i, j>>, CellSeries(df, i, j, k, "get"))
           rd == SetItem(d, <<i, j>>, CellSeries(df, i, j, k, "del"))
       IN  /\ a' = ra.m
           /\ g' = IF ra.ok THEN rg.m ELSE g
           /\ d' = IF ra.ok /\ rg.ok THEN rd.m ELSE d
           /\ IF ra.ok /\ rg.ok /\ rd.ok
              THEN HeatCellAdvance /\ UNCHANGED err
              ELSE Raise("ValueError") /\ UNCHANGED <<i, j>>
    /\ UNCHANGED <<file, df, axs, num_Ns, num_ns, num_ls, nmax, k,
                   heatImg, colors, _df, lines, logAxes, shown>>

(* axs[r][c] is defined only on a 2-D array of Axes: on a 1-D array axs[r] *)
(* is an Axes object, which is not subscriptable.                          *)
CanIndex2D(shape) == shape.ndim = 2

(* lines 27-29: axs[0][k].imshow(a), axs[1][k].imshow(g), axs[2][k].imshow(d) *)
HeatImshow ==
    /\ pc = "imshow"
    /\ IF CanIndex2D(axs)
       THEN /\ heatImg' = (<<0, k>> :> a) @@ (<<1, k>> :> g) @@ (<<2, k>> :> d)
                          @@ heatImg
            /\ k' = k + 1
            /\ pc' = "heat_N"
            /\ UNCHANGED err
       ELSE /\ Raise("TypeError")
            /\ UNCHANGED <<heatImg, k>>
    /\ UNCHANGED <<file, df, axs, num_Ns, num_ns, num_ls, nmax, i, j,
                   a, g, d, colors, _df, lines, logAxes, shown>>

(* line 31: plt.show()                                                     *)
Show1 ==
    /\ pc = "show1"
    /\ shown' = shown + 1
    /\ pc' = "subplots2"
    /\ UNCHANGED <<err, file, df, axs, num_Ns, num_ns, num_ls, nmax, k, i, j,
                   a, g, d, heatImg, colors, _df, lines, logAxes>>

(* lines 34-37: the 3x2 sweep grid and the colour list of column 0         *)
Subplots2 ==
    /\ pc = "subplots2"
    /\ axs' = SubplotsShape(3, 2)
    /\ colors' = Linspace(num_ns)
    /\ i' = 0
    /\ pc' = "sweep0"
    /\ UNCHANGED <<err, file, df, num_Ns, num_ns, num_ls, nmax, k, j,
                   a, g, d, heatImg, _df, lines, logAxes, shown>>

(* mutant of SweepFilter: the (df['n'] == nmax) term of the mask left out  *)
SweepFilterAnyFanout(t, col, v, nm) == SelectSeq(t, LAMBDA r : r[col] = v)

(* df[(df[col] == v) & (df['n'] == nmax)]                                  *)
SweepFilter(t, col, v, nm) == SelectSeq(t, LAMBDA r : r[col] = v /\ r.n = nm)

(* axs[row][c].plot(t[xcol], t[ycol], label=label, color=color)            *)
Line(row, c, t, xcol, ycol, label, color) ==
    [row |-> row, col |-> c, label |-> label, color |-> color,
     xs |-> Column(t, xcol), ys |-> Column(t, ycol)]

(* mutant of ThreeLines: the third plot call draws 'get' again             *)
ThreeLinesGetTwice(c, t, xcol, label, color) ==
    << Line(0, c, t, xcol, "add", label, color),
       Line(1, c, t, xcol, "get", label, color),
       Line(2, c, t, xcol, "get", label, color) >>

(* the three plot calls of one loop iteration                              *)
ThreeLines(c, t, xcol, label, color) ==
    << Line(0, c, t, xcol, "add", label, color),
       Line(1, c, t, xcol, "get", label, color),
       Line(2, c, t, xcol, "del", label, color) >>

(* mutant of SweepIter: the filtered table is bound to df, not to _df      *)
SweepIterRebindsDf(c, groupcol, xcol, label) ==
    /\ df' = SweepFilter(df, groupcol, label, nmax)
    /\ IF i < Len(colors)
       THEN /\ lines' = lines \o ThreeLines(c, df', xcol, label, At(colors, i))
            /\ i' = i + 1
            /\ UNCHANGED <<pc, err>>
       ELSE /\ Raise("IndexError")
            /\ UNCHANGED <<lines, i>>
    /\ UNCHANGED <<file, _df, axs, num_Ns, num_ns, num_ls, nmax, k, j,
                   a, g, d, heatImg, colors, logAxes, shown>>

(* One iteration of a sweep loop: filter, then three plot calls coloured   *)
(* colors[i].  The filter (line 39/47) runs before colors[i] is read       *)
(* (line 40/48), and a list index past the end raises IndexError.          *)
SweepIter(c, groupcol, xcol, label) ==
    /\ _df' = SweepFilter(df, groupcol, label, nmax)
    /\ IF i < Len(colors)
       THEN /\ lines' = lines \o ThreeLines(c, _df', xcol, label, At(colors, i))
            /\ i' = i + 1
            /\ UNCHANGED <<pc, err>>
       ELSE /\ Raise("IndexError")
            /\ UNCHANGED <<lines, i>>
    /\ UNCHANGED <<file, df, axs, num_Ns, num_ns, num_ls, nmax, k, j,
                   a, g, d, heatImg, colors, logAxes, shown>>

(* lines 38-42: one nsize group of sweep column 0                          *)
SweepCol0 ==
    /\ pc = "sweep0"
    /\ IF i < Len(Sorted(Unique(df, "nsize")))
       THEN SweepIter(0, "nsize", "lsize", NsizeAt(df, i))
       ELSE /\ pc' = "colors2"
            /\ UNCHANGED <<err, file, df, axs, num_Ns, num_ns, num_ls, nmax,
                           k, i, j, a, g, d, heatImg, colors, _df, lines,
                           logAxes, shown>>

(* line 45: colors = [cm.viridis(x) for x in np.linspace(0, 1, num_ns)]    *)
Colors2 ==
    /\ pc = "colors2"
    /\ colors' = Linspace(num_ns)
    /\ i' = 0
    /\ pc' = "sweep1"
    /\ UNCHANGED <<err, file, df, axs, num_Ns, num_ns, num_ls, nmax, k, j,
                   a, g, d, heatImg, _df, lines, logAxes, shown>>

(* lines 46-50: one lsize group of sweep column 1                          *)
SweepCol1 ==
    /\ pc = "sweep1"
    /\ IF i < Len(Sorted(Unique(df, "lsize")))
       THEN SweepIter(1, "lsize", "nsize", LsizeAt(df, i))
       ELSE /\ pc' = "axes"
            /\ UNCHANGED <<err, file, df, axs, num_Ns, num_ns, num_ls, nmax,
                           k, i, j, a, g, d, heatImg, colors, _df, lines,
                           logAxes, shown>>

(* lines 52-56: legends of column 1, log scale on all six axes             *)
LogAxes ==
    /\ pc = "axes"
    /\ logAxes' = TRUE
    /\ pc' = "show2"
    /\ UNCHANGED <<err, file, df, axs, num_Ns, num_ns, num_ls, nmax, k, i, j,
                   a, g, d, heatImg, colors, _df, lines, shown>>

(* line 58: plt.show()                                                     *)
Show2 ==
    /\ pc = "show2"
    /\ shown' = shown + 1
    /\ pc' = "done"
    /\ UNCHANGED <<err, file, df, axs, num_Ns, num_ns, num_ls, nmax, k, i, j,
                   a, g, d, heatImg, colors, _df, lines, logAxes>>

Next ==
    \/ ReadCsv
    \/ TrimLast
    \/ Subplots1
    \/ Counts
    \/ HeatNextN
    \/ HeatCell
    \/ HeatImshow
    \/ Show1
    \/ Subplots2
    \/ SweepCol0
    \/ Colors2
    \/ SweepCol1
    \/ LogAxes
    \/ Show2

Spec == Init /\ [][Next]_vars
----------------------------------------------------------------------------
(* Vocabulary of the properties, stated on the table itself                *)

Terminated == pc \in {"done", "error"}
Loaded == pc \notin {"read_csv", "trim"}

Fanouts == { df[r].n : r \in DOMAIN df }
Nsizes == { df[r].nsize : r \in DOMAIN df }
Lsizes == { df[r].lsize : r \in DOMAIN df }

(* the idx-th smallest member of S (idx from 0)                            *)
Kth(S, idx) == CHOOSE x \in S : Cardinality({ y \in S : y < x }) = idx

(* rows of df for heatmap column kk, matrix row ii, matrix column jj       *)
Matching(kk, ii, jj) ==
    LET N == Kth(Fanouts, kk)
        ns == Kth(Nsizes, ii)
        l == Kth(Lsizes, jj)
    IN  { r \in DOMAIN df : df[r].n = N /\ df[r].nsize = ns /\ df[r].lsize = l }

Cells == (0..Cardinality(Nsizes) - 1) \X (0..Cardinality(Lsizes) - 1)
Columns == 0..Cardinality(Fanouts) - 1

EveryCombinationOnce ==
    \A kk \in Columns : \A c \in Cells : Cardinality(Matching(kk, c[1], c[2])) = 1

SomeCombinationMissing ==
    \E kk \in Columns : \E c \in Cells : Matching(kk, c[1], c[2]) = {}

(* the matrix the unique rows of column kk define for one cost column      *)
ExpectedMatrix(kk, col) ==
    [c \in Cells |-> df[CHOOSE r \in Matching(kk, c[1], c[2]) : TRUE][col]]

OpColumn(row) == IF row = 0 THEN "add" ELSE IF row = 1 THEN "get" ELSE "del"

(* every cost value the figures hold                                       *)
PlottedValues ==
    UNION { { heatImg[p][c] : c \in DOMAIN heatImg[p] } : p \in DOMAIN heatImg }
    \cup UNION { { lines[q].ys[r] : r \in DOMAIN lines[q].ys } : q \in DOMAIN lines }

----------------------------------------------------------------------------
(* C1 as stated: once loaded, df has one row fewer than the file.          *)
C1_RowCountIsInputMinusOne ==
    Loaded => Len(df) = Len(file) - 1

(* C1 amended: once loaded, df is the file without its last row, in file   *)
(* order; a file with no data row gives an empty df (0 rows, not -1); no   *)
(* cost read from the dropped row ever reaches a matrix, image or series.  *)
C1_TrimDropsLastRow ==
    Loaded =>
        /\ Len(df) = IF Len(file) = 0 THEN 0 ELSE Len(file) - 1
        /\ \A r \in DOMAIN df : df[r] = file[r]
        /\ Len(file) > 0 =>
              \A col \in {"add", "get", "del"} :
                  /\ file[Len(file)][col] \notin PlottedValues
                  /\ \A c \in DOMAIN a : file[Len(file)][col] \notin {a[c], g[c], d[c]}

(* C1 witness: a run with a full-length file went through both passes.    *)
C1_Witness ==
    pc = "done" /\ Len(file) = MaxRows /\ Len(df) = MaxRows - 1

(* C4: every point of every sweep line is a row of df whose n is the       *)
(* largest n of df.                                                        *)
C4_SweepOnlyMaxFanout ==
    \A q \in DOMAIN lines :
        \A p \in DOMAIN lines[q].ys :
            \E r \in DOMAIN df :
                /\ df[r][OpColumn(lines[q].row)] = lines[q].ys[p]
                /\ df[r][IF lines[q].col = 0 THEN "lsize" ELSE "nsize"] = lines[q].xs[p]
                /\ \A r2 \in DOMAIN df : df[r2].n <= df[r].n

(* C4 witness: two fan-out values, and a finished sweep with a line of at  *)
(* least two points.                                                       *)
C4_Witness ==
    /\ pc = "done"
    /\ Cardinality(Fanouts) >= 2
    /\ \E q \in DOMAIN lines : lines[q].col = 1 /\ Len(lines[q].ys) >= 2

(* C6: after loading, no step changes df.                                  *)
C6_TableNeverMutated ==
    [][Loaded => df' = df]_vars

(* C6 witness: both passes ran to the end on a table of several rows.     *)
C6_Witness ==
    pc = "done" /\ Len(df) >= 2 /\ Len(lines) >= 6 /\ DOMAIN heatImg # {}

(* the counts of matching rows before cell (kk, ii, jj) in loop order      *)
Before(k1, i1, j1, k2, i2, j2) ==
    \/ k1 < k2
    \/ k1 = k2 /\ i1 < i2
    \/ k1 = k2 /\ i1 = i2 /\ j1 < j2

(* (kk, c) is the first cell, in loop order, without exactly one row       *)
FirstNonUnique(kk, c) ==
    /\ Cardinality(Matching(kk, c[1], c[2])) # 1
    /\ \A k2 \in Columns : \A c2 \in Cells :
          Before(k2, c2[1], c2[2], kk, c[1], c[2])
              => Cardinality(Matching(k2, c2[1], c2[2])) = 1

BuildingColumn(kk) == k = kk /\ pc \in {"heat_cell", "imshow", "error"}

AllImagesDrawn ==
    \A kk \in Columns : \A row \in 0..2 :
        /\ <<row, kk>> \in DOMAIN heatImg
        /\ heatImg[<<row, kk>>] = ExpectedMatrix(kk, OpColumn(row))

(* C2 as stated: when every combination of the table has its one row, the  *)
(* run ends with the three matrices of every fan-out drawn in that         *)
(* fan-out's grid column, each cell holding the unique row's cost.         *)
C2_HeatmapMatricesDrawn ==
    (Terminated /\ Len(df) > 0 /\ EveryCombinationOnce) => AllImagesDrawn

(* C2 restricted to tables with at least two fan-out values (holds).       *)
C2_DrawnFromTwoFanouts ==
    (Terminated /\ Cardinality(Fanouts) >= 2 /\ EveryCombinationOnce)
        => AllImagesDrawn

(* C3 as stated: the x-sequence of every line of sweep column 0 is in      *)
(* ascending lsize order.                                                  *)
C3_Col0AscendingLsize ==
    \A q \in DOMAIN lines :
        lines[q].col = 0 =>
            \A p1, p2 \in DOMAIN lines[q].xs :
                p1 < p2 => lines[q].xs[p1] <= lines[q].xs[p2]

(* C5 as stated: a table with one fan-out value, each combination once,    *)
(* gets its heatmap figure, a grid of 3 rows by 1 column.                  *)
C5_SingleFanoutOneColumn ==
    (Terminated /\ Cardinality(Fanouts) = 1 /\ EveryCombinationOnce)
        => /\ shown >= 1
           /\ DOMAIN heatImg = (0..2) \X {0}

(* C7: a cell whose combination has no row or several rows is never        *)
(* stored, its column is never drawn, no figure is shown and the run can   *)
(* only end in the ValueError of the cell assignment.  (Written as         *)
(* "consequence, or exactly one row" so that the row count is evaluated    *)
(* only in the states where the consequence fails.)                        *)
C7_NonUniqueCellRaises ==
    Loaded =>
        \A kk \in Columns : \A c \in Cells :
            \/ /\ shown = 0
               /\ \A row \in 0..2 : <<row, kk>> \notin DOMAIN heatImg
               /\ (BuildingColumn(kk) /\ c \in DOMAIN a)
                     => a[c] = 0 /\ g[c] = 0 /\ d[c] = 0
               /\ Terminated => pc = "error" /\ err = "ValueError"
            \/ Cardinality(Matching(kk, c[1], c[2])) = 1

(* C7 witness: the run raised at a cell with several matching rows, after  *)
(* storing the cell before it.                                             *)
C7_Witness ==
    /\ pc = "error" /\ err = "ValueError"
    /\ Cardinality(Matching(k, i, j)) >= 2
    /\ j = 1 /\ a[<<i, 0>>] # 0 /\ a[<<i, j>>] = 0

(* C8 as stated: with a combination missing (and two fan-out values, so    *)
(* that the grid is 2-D) the heatmap pass completes and shows its figure.  *)
C8_MissingCellRendersZero ==
    (Terminated /\ Cardinality(Fanouts) >= 2 /\ SomeCombinationMissing)
        => shown >= 1

(* C8 amended: with a combination missing the heatmap pass never           *)
(* completes: the run ends with ValueError at the first cell, in loop      *)
(* order, that has no row or several; the missing cell still holds 0 in    *)
(* the matrices being built, which are never drawn.                        *)
C8_MissingCombinationAborts ==
    Loaded =>
        \/ /\ shown = 0 /\ pc # "done" /\ lines = <<>>
           /\ Terminated =>
                 \/ err = "ValueError" /\ FirstNonUnique(k, <<i, j>>)
                 \/ ~SomeCombinationMissing
           /\ \A kk \in Columns : \A c \in Cells :
                 (BuildingColumn(kk) /\ c \in DOMAIN a /\ Matching(kk, c[1], c[2]) = {})
                     => a[c] = 0 /\ g[c] = 0 /\ d[c] = 0
        \/ ~SomeCombinationMissing

(* C8 witness: the first column was drawn and the run raised at a cell of  *)
(* the second column that has no row.                                      *)
C8_Witness ==
    /\ pc = "error"
    /\ k = 1 /\ Matching(k, i, j) = {}
    /\ <<0, 0>> \in DOMAIN heatImg
    /\ a[<<i, j>>] = 0

(* the line the q-th plot call must draw, from df alone: the groups of     *)
(* column 0 (one per nsize, ascending) come first, then those of column 1  *)
(* (one per lsize, ascending), three lines (add, get, del) per group       *)
ExpectedLine(q) ==
    LET inCol0 == q <= 3 * Cardinality(Nsizes)
        q0 == IF inCol0 THEN q - 1 ELSE q - 1 - 3 * Cardinality(Nsizes)
        grp == q0 \div 3
        row == q0 % 3
        byCol == IF inCol0 THEN "nsize" ELSE "lsize"
        xCol == IF inCol0 THEN "lsize" ELSE "nsize"
        label == Kth(IF inCol0 THEN Nsizes ELSE Lsizes, grp)
        rows == SelectSeq(df, LAMBDA r : r[byCol] = label
                                        /\ \A r2 \in DOMAIN df : df[r2].n <= r.n)
    IN  [row |-> row, col |-> IF inCol0 THEN 0 ELSE 1, label |-> label,
         color |-> grp + 1,
         xs |-> [p \in DOMAIN rows |-> rows[p][xCol]],
         ys |-> [p \in DOMAIN rows |-> rows[p][OpColumn(row)]]]

SweepStarted == pc \in {"sweep0", "colors2", "sweep1", "axes", "show2", "done"}

(* C9 as stated: a table whose sweep lookups are all defined (a largest    *)
(* fan-out exists, a colour exists for every lsize group) gets its sweep   *)
(* figure whatever the heatmap pass did.  Two fan-out values are required  *)
(* so that the heatmap grid is 2-D.                                        *)
C9_SweepFigureWhateverHeatmap ==
    (/\ Terminated
     /\ Cardinality(Fanouts) >= 2
     /\ Cardinality(Lsizes) <= Cardinality(Nsizes))
        => pc = "done"

(* C9 amended: every sweep line is determined by df alone and the sweep    *)
(* pass leaves the drawn heatmap matrices as they were; but the passes     *)
(* run in one process, heatmap first: the sweep pass starts only after     *)
(* the heatmap figure was shown, and a run whose heatmap pass raised has   *)
(* plotted no sweep line.                                                  *)
C9_SweepAfterHeatmapOnly ==
    /\ \A q \in DOMAIN lines : lines[q] = ExpectedLine(q)
    /\ pc = "done" => Len(lines) = 3 * (Cardinality(Nsizes) + Cardinality(Lsizes))
    /\ (SweepStarted \/ lines # <<>>) =>
          shown >= 1 /\ EveryCombinationOnce /\ AllImagesDrawn
    /\ (pc = "error" /\ shown = 0) => lines = <<>> /\ ~logAxes

(* C9 witness: the heatmap pass raised after drawing a column, on a table  *)
(* whose sweep lookups are all defined; no sweep line exists.              *)
C9_Witness ==
    /\ pc = "error" /\ shown = 0 /\ lines = <<>>
    /\ Cardinality(Fanouts) >= 2
    /\ Cardinality(Lsizes) <= Cardinality(Nsizes)
    /\ DOMAIN heatImg # {}

(* C10 as stated: whenever sweep column 1 is about to plot an lsize group, *)
(* its index is within the colour list.                                    *)
C10_ColourForEveryLsizeGroup ==
    (pc = "sweep1" /\ i < Cardinality(Lsizes)) => i < Len(colors)

====
